---- MODULE Spec2Model ----
(***************************************************************************)
(* A model of tools/scoring/score.py, the SMT-COMP scoring script.         *)
(*                                                                         *)
(* The script is a batch pipeline of functions over tables (pandas data    *)
(* frames).  A table is modelled as a sequence of records, one per row, in *)
(* row order; a column is a field of the records.  Each stage has its own  *)
(* specification: its Init draws the stage's input table (and nothing      *)
(* else) from a bounded set, and its actions apply the stage's function.   *)
(*                                                                         *)
(*   pc    where the run is ("input", then the name of what has run)       *)
(*   data  the table (or value) handed to the stage                        *)
(*   args  the options of the run (g_args and the call's parameters)       *)
(*   out   what the stage returned                                         *)
(***************************************************************************)
EXTENDS Integers, Sequences, FiniteSets, TLC

VARIABLES pc, data, args, out

vars == <<pc, data, args, out>>

NoArgs == [none |-> TRUE]
NoOut == [status |-> "none"]

(***************************************************************************)
(* Generic helpers: sets of bounded tables, and column operations.         *)
(***************************************************************************)

\* t is a table of at most n rows drawn from S.
IsTable(t, S, n) == \E k \in 0..n : t \in [1..k -> S]

\* The values of a column: data.col.unique() as a set.
Column(t, col) == {t[i][col] : i \in DOMAIN t}

\* Boolean indexing data[mask]: the rows whose position is in keep, in order.
RECURSIVE SelectRows(_, _, _)
SelectRows(t, keep, i) ==
    IF i > Len(t) THEN <<>>
    ELSE IF i \in keep THEN <<t[i]>> \o SelectRows(t, keep, i + 1)
    ELSE SelectRows(t, keep, i + 1)

(***************************************************************************)
(* BenchmarkClassifier: add_division_family_info.                          *)
(* A string is a sequence of one-character strings.                        *)
(***************************************************************************)

UpperChars ==
    {"A", "B", "C", "D", "E", "F", "G", "H", "I", "J", "K", "L", "M",
     "N", "O", "P", "Q", "R", "S", "T", "U", "V", "W", "X", "Y", "Z"}

LowerChars ==
    {"a", "b", "c", "d", "e", "f", "g", "h", "i", "j", "k", "l", "m",
     "n", "o", "p", "q", "r", "s", "t", "u", "v", "w", "x", "y", "z"}

\* str.isupper(): at least one cased character, and no lower-case one.
isupper(s) ==
    /\ \E i \in DOMAIN s : s[i] \in UpperChars
    /\ \A i \in DOMAIN s : s[i] \notin LowerChars

SlashAt(s) == {i \in DOMAIN s : s[i] = "/"}

MinOf(S) == CHOOSE x \in S : \A y \in S : x <= y
MaxOf(S) == CHOOSE x \in S : \A y \in S : x >= y

\* s.split('/', 1): at most one split, at the first '/'.
split(s) ==
    IF SlashAt(s) = {} THEN <<s>>
    ELSE <<SubSeq(s, 1, MinOf(SlashAt(s)) - 1),
           SubSeq(s, MinOf(SlashAt(s)) + 1, Len(s))>>

\* s.rsplit('/', 1): at most one split, at the last '/'.
rsplit(s) ==
    IF SlashAt(s) = {} THEN <<s>>
    ELSE <<SubSeq(s, 1, MaxOf(SlashAt(s)) - 1),
           SubSeq(s, MaxOf(SlashAt(s)) + 1, Len(s))>>

get_family_top(benchmark) == split(benchmark)[1]

\* The slip of taking the top-most directory in both modes.
get_family_bot_first(benchmark) == split(benchmark)[1]

get_family_bot(benchmark) == rsplit(benchmark)[1]

\* fam_func is carried as the name of the option that selected it.
family_func(fam_func, benchmark) ==
    IF fam_func = "top" THEN get_family_top(benchmark)
    ELSE get_family_bot(benchmark)

\* x is the list benchmark.split('/', 1).  x[1] of a one-element list raises
\* IndexError; unpacking a one-element list into two names raises ValueError.
split_benchmark_division_family(x, fam_func) ==
    IF Len(x) < 2 THEN [status |-> "IndexError"]
    ELSE IF isupper(x[1])
    THEN [status |-> "ok", benchmark |-> x[2], division |-> x[1],
          family |-> family_func(fam_func, x[2])]
    ELSE IF Len(split(x[2])) < 2 THEN [status |-> "ValueError"]
    ELSE [status |-> "ok",
          benchmark |-> split(x[2])[2],
          division |-> split(x[2])[1],
          family |-> family_func(fam_func, split(x[2])[2])]

\* The row-wise result for one benchmark identifier; any other option dies.
add_division_family_info(benchmark, family_definition) ==
    IF family_definition \in {"top", "bot"}
    THEN split_benchmark_division_family(split(benchmark), family_definition)
    ELSE [status |-> "die"]

\* The -f/--family-choice values tried: the two supported ones and the
\* spelling of the second that the script does not accept.
FamilyDefinitions == {"top", "bot", "bottom"}

MaxIdLen == 7

\* One upper-case, one lower-case and one uncased character, and the separator.
Alphabet == {"Q", "f", "_", "/"}

ScenarioA1 ==
    <<"Q", "F", "_", "L", "I", "A", "/", "f", "o", "o", "/",
      "b", "a", "r", ".", "s", "m", "t", "2">>

ScenarioA2 ==
    <<"Q", "F", "_", "L", "I", "A", "/", "f", "o", "o", "/", "b", "a", "r", "/",
      "b", "a", "z", ".", "s", "m", "t", "2">>

InitClassify ==
    /\ pc = "input"
    /\ \/ IsTable(data, Alphabet, MaxIdLen)
       \/ data \in {ScenarioA1, ScenarioA2}
    /\ args = NoArgs
    /\ out = NoOut

Classify ==
    /\ pc = "input"
    /\ \E fd \in FamilyDefinitions :
        /\ args' = [family |-> fd]
        /\ out' = add_division_family_info(data, fd)
    /\ pc' = "classified"
    /\ UNCHANGED data

NextClassify == Classify

SpecClassify == InitClassify /\ [][NextClassify]_vars

(***************************************************************************)
(* Classification, stated on the '/'-separated segments of the identifier. *)
(***************************************************************************)

RECURSIVE Segments(_)
Segments(s) ==
    IF SlashAt(s) = {} THEN <<s>>
    ELSE <<SubSeq(s, 1, MinOf(SlashAt(s)) - 1)>>
         \o Segments(SubSeq(s, MinOf(SlashAt(s)) + 1, Len(s)))

RECURSIVE Join(_)
Join(g) ==
    IF Len(g) = 0 THEN <<>>
    ELSE IF Len(g) = 1 THEN g[1]
    ELSE g[1] \o <<"/">> \o Join(Tail(g))

Front(g) == SubSeq(g, 1, Len(g) - 1)

\* Segments of the identifier that precede the benchmark path.
PrefixLen(id) == IF isupper(Segments(id)[1]) THEN 1 ELSE 2

Classifiable(id) == Len(Segments(id)) > PrefixLen(id)

PathOf(id) == Join(SubSeq(Segments(id), PrefixLen(id) + 1, Len(Segments(id))))

DivisionAndBenchmarkAsStated ==
    /\ out.status = "ok" <=> Classifiable(data)
    /\ out.status = "ok" =>
        /\ out.division = Segments(data)[PrefixLen(data)]
        /\ out.benchmark = PathOf(data)
        /\ args.family = "top" => out.family = Segments(out.benchmark)[1]

\* C8 as stated: in the bottom mode the family is the division-stripped path
\* with its last segment removed, whatever the number of its segments.
C8_AsStated ==
    (pc = "classified" /\ args.family \in {"top", "bot"}) =>
        /\ DivisionAndBenchmarkAsStated
        /\ (out.status = "ok" /\ args.family = "bot") =>
              out.family = Join(Front(Segments(out.benchmark)))

\* C8 (amended): the identifier is split on its first '/'; an upper-case
\* first segment (str.isupper) is the division and the rest the benchmark,
\* otherwise the first segment is dropped and the remainder split again into
\* division and benchmark (an identifier with too few segments raises an
\* error).  The family is the first segment of the benchmark path in mode
\* top; in mode bot it is the path without its last segment when the path
\* has at least two segments, and the whole path when it has only one.
\* Scenario A: QF_LIA/foo/bar.smt2 and QF_LIA/foo/bar/baz.smt2.
C8_Classification ==
    (pc = "classified" /\ args.family \in {"top", "bot"}) =>
        /\ DivisionAndBenchmarkAsStated
        /\ (out.status = "ok" /\ args.family = "bot") =>
              out.family = IF Len(Segments(out.benchmark)) = 1
                           THEN out.benchmark
                           ELSE Join(Front(Segments(out.benchmark)))
        /\ data = ScenarioA1 =>
              /\ out.division = <<"Q", "F", "_", "L", "I", "A">>
              /\ out.benchmark = SubSeq(ScenarioA1, 8, Len(ScenarioA1))
              /\ out.family = <<"f", "o", "o">>
        /\ data = ScenarioA2 =>
              /\ out.division = <<"Q", "F", "_", "L", "I", "A">>
              /\ out.benchmark = SubSeq(ScenarioA2, 8, Len(ScenarioA2))
              /\ out.family = IF args.family = "top" THEN <<"f", "o", "o">>
                               ELSE <<"f", "o", "o", "/", "b", "a", "r">>

\* A lower-case first segment was dropped before an upper-case division,
\* and the directory part of a path of several segments was taken.
C8_Witness ==
    /\ pc = "classified"
    /\ args.family = "bot"
    /\ out.status = "ok"
    /\ Segments(data)[1] # <<>>
    /\ ~isupper(Segments(data)[1])
    /\ isupper(out.division)
    /\ \A k \in DOMAIN Segments(out.benchmark) : Segments(out.benchmark)[k] # <<>>
    /\ Len(Segments(out.benchmark)) >= 2
    /\ out.family # out.benchmark

(***************************************************************************)
(* DisagreementFilter: remove_disagreements.                               *)
(* A row carries the columns the filter reads; the rows it keeps are kept  *)
(* whole and in order.  The benchmark column holds the division-stripped   *)
(* path, so one benchmark value may stand for files of several divisions.  *)
(***************************************************************************)

Verdicts == {"sat", "unsat"}

\* unsound_solvers: solvers with a result that differs from a known status.
unsound_solvers(t) ==
    {t[i].solver : i \in {j \in DOMAIN t :
        /\ t[j].expected # "starexec-unknown"
        /\ t[j].result # "starexec-unknown"
        /\ t[j].result # t[j].expected}}

\* solved_unknown: positions of the verdicts of sound solvers on benchmarks
\* of unknown status.
solved_unknown(t) ==
    {i \in DOMAIN t :
        /\ t[i].expected = "starexec-unknown"
        /\ t[i].solver \notin unsound_solvers(t)
        /\ (t[i].result = "sat" \/ t[i].result = "unsat")}

\* The slip of deduplicating on the benchmark alone.
drop_duplicates_benchmark(t, rows) ==
    {i \in rows : \A j \in rows : j < i => t[j].benchmark # t[i].benchmark}

\* drop_duplicates(subset=['benchmark', 'result']): the first row of each
\* (benchmark, result) pair.
drop_duplicates(t, rows) ==
    {i \in rows : \A j \in rows :
        j < i => (t[j].benchmark # t[i].benchmark \/ t[j].result # t[i].result)}

\* groupby('benchmark').agg({'result': 'count'}): rows per benchmark.
grouped_results(t, rows) ==
    [b \in {t[i].benchmark : i \in rows} |->
        Cardinality({i \in rows : t[i].benchmark = b})]

\* exclude: the benchmarks left with more than one result.
exclude(t) ==
    LET counts == grouped_results(t, drop_duplicates(t, solved_unknown(t)))
    IN {b \in DOMAIN counts : counts[b] > 1}

remove_disagreements(t) ==
    SelectRows(t, {i \in DOMAIN t : t[i].benchmark \notin exclude(t)}, 1)

Benchmarks == {"b1", "b2"}
Solvers == {"s1", "s2"}
Results == {"sat", "unsat", "starexec-unknown", "timeout"}
Statuses == {"sat", "unsat", "starexec-unknown"}

\* The filter treats the two known statuses alike: the tables carry one.
JobPairs ==
    [benchmark : Benchmarks, solver : Solvers, result : Results,
     expected : {"sat", "starexec-unknown"}]

MaxFilterRows == 3

InitFilter ==
    /\ pc = "input"
    /\ IsTable(data, JobPairs, MaxFilterRows)
    /\ args = NoArgs
    /\ out = NoOut

RemoveDisagreements ==
    /\ pc = "input"
    /\ out' = [status |-> "ok", data |-> remove_disagreements(data)]
    /\ pc' = "filtered"
    /\ UNCHANGED <<data, args>>

NextFilter == RemoveDisagreements

SpecFilter == InitFilter /\ [][NextFilter]_vars

\* The filter run again on its own output: the first output becomes the
\* input of the second run.
VerdictJobPairs ==
    [benchmark : Benchmarks, solver : Solvers, result : Verdicts,
     expected : {"sat", "starexec-unknown"}]

MaxRefilterRows == 5

InitRefilter ==
    /\ pc = "input"
    /\ IsTable(data, VerdictJobPairs, MaxRefilterRows)
    /\ args = NoArgs
    /\ out = NoOut

RemoveDisagreementsAgain ==
    /\ pc = "filtered"
    /\ data' = out.data
    /\ out' = [status |-> "ok", data |-> remove_disagreements(out.data)]
    /\ pc' = "refiltered"
    /\ UNCHANGED args

NextRefilter == RemoveDisagreements \/ RemoveDisagreementsAgain

SpecRefilter == InitRefilter /\ [][NextRefilter]_vars

\* C2 as stated: the filter applied to its own output returns that output,
\* for every table.
C2_Idempotent == pc = "refiltered" => out.data = data

\* A disagreement benchmark: among the rows of unknown status with a verdict
\* of a solver not classified unsound, it has a sat row and an unsat row.
Disagreement(t, b) ==
    \E i, j \in DOMAIN t :
        /\ t[i].benchmark = b /\ t[j].benchmark = b
        /\ t[i].expected = "starexec-unknown"
        /\ t[j].expected = "starexec-unknown"
        /\ t[i].solver \notin unsound_solvers(t)
        /\ t[j].solver \notin unsound_solvers(t)
        /\ t[i].result = "sat" /\ t[j].result = "unsat"

\* C3: remove_disagreements removes a job pair iff its benchmark is a
\* disagreement benchmark: every row of such a benchmark goes, whatever its
\* solver and result, and every other row stays, unchanged and in order.
C3_RemovesExactlyDisagreements ==
    pc = "filtered" =>
        out.data = SelectRows(data,
                     {i \in DOMAIN data : ~Disagreement(data, data[i].benchmark)}, 1)

\* A disagreement benchmark lost a row that carries no verdict.
C3_Witness ==
    /\ pc = "filtered"
    /\ \E i \in DOMAIN data :
        /\ Disagreement(data, data[i].benchmark)
        /\ data[i].result \notin Verdicts
        /\ \A k \in DOMAIN out.data : out.data[k].benchmark # data[i].benchmark

\* The solvers with a verdict (sat or unsat) that contradicts a known status.
WrongVerdictSolvers(t) ==
    {t[i].solver : i \in {j \in DOMAIN t :
        /\ t[j].expected # "starexec-unknown"
        /\ t[j].result \in Verdicts
        /\ t[j].result # t[j].expected}}

\* C14 as stated: a solver is classified unsound iff it has a job pair of
\* known status whose result is a verdict different from the status; a
\* solver whose mismatches on known-status benchmarks are all non-verdicts
\* (a timeout label) is not unsound, and its sat/unsat answers on benchmarks
\* of unknown status count when disagreements are looked for.
C14_UnsoundIffWrongVerdict ==
    pc = "filtered" =>
        /\ unsound_solvers(data) = WrongVerdictSolvers(data)
        /\ \A i, j \in DOMAIN data :
              (/\ data[i].benchmark = data[j].benchmark
               /\ data[i].expected = "starexec-unknown"
               /\ data[j].expected = "starexec-unknown"
               /\ data[i].solver \notin WrongVerdictSolvers(data)
               /\ data[j].solver \notin WrongVerdictSolvers(data)
               /\ data[i].result = "sat" /\ data[j].result = "unsat")
                  => \A k \in DOMAIN out.data :
                         out.data[k].benchmark # data[i].benchmark

(***************************************************************************)
(* Numbers.  The script's floats are modelled as exact rationals <<n, d>>  *)
(* with d > 0, in lowest terms; rounding is outside the model.             *)
(***************************************************************************)

RECURSIVE GCD(_, _)
GCD(a, b) == IF b = 0 THEN a ELSE GCD(b, a % b)

Abs(a) == IF a < 0 THEN -a ELSE a

Rat(n, d) ==
    LET g == GCD(Abs(n), d) IN IF n = 0 THEN <<0, 1>> ELSE <<n \div g, d \div g>>

RatInt(n) == <<n, 1>>

RatAdd(x, y) ==
    LET l == (x[2] \div GCD(x[2], y[2])) * y[2]
    IN Rat(x[1] * (l \div x[2]) + y[1] * (l \div y[2]), l)

RatMul(x, y) ==
    LET a == Rat(x[1], y[2])
        b == Rat(y[1], x[2])
    IN Rat(a[1] * b[1], a[2] * b[2])

\* x / y for y > 0.
RatDiv(x, y) == RatMul(x, <<y[2], y[1]>>)

RatLess(x, y) == x[1] * y[2] < y[1] * x[2]

RECURSIVE RatSum(_, _)
\* The sum of f[k] over the keys k in S.
RatSum(f, S) ==
    IF S = {} THEN RatInt(0)
    ELSE LET k == CHOOSE x \in S : TRUE
         IN RatAdd(f[k], RatSum(f, S \ {k}))

\* math.log on the benchmark counts the tables can hold, to two decimals.
LnCenti == <<0, 69, 110, 139, 161, 179, 195, 208>>

log(n) == Rat(LnCenti[n], 100)

(***************************************************************************)
(* FamilyWeighter: get_family_scores.                                      *)
(***************************************************************************)

\* Fb: the distinct benchmarks of one family.
Fb(t, family) ==
    Cardinality({t[i].benchmark : i \in {j \in DOMAIN t : t[j].family = family}})

\* alpha_b = (1.0 + math.log(Fb)) / Fb
alpha_b(t, family) ==
    RatDiv(RatAdd(RatInt(1), log(Fb(t, family))), RatInt(Fb(t, family)))

\* The slip of summing the raw weights without the benchmark counts.
score_sum_unweighted(t) ==
    RatSum([f \in Column(t, "family") |-> alpha_b(t, f)], Column(t, "family"))

\* score_sum: the sum over the families of Fb * alpha_b.
score_sum(t) ==
    RatSum([f \in Column(t, "family") |->
               RatMul(RatInt(Fb(t, f)), alpha_b(t, f))],
           Column(t, "family"))

\* family -> alpha_prime_b; the empty dictionary for an empty table.
get_family_scores(t) ==
    [f \in Column(t, "family") |-> RatDiv(alpha_b(t, f), score_sum(t))]

\* Benchmark paths, each with the family the classifier derived from it.
FamilyOf ==
    [b \in {"a1", "a2", "a3", "b1", "b2", "c1"} |->
        IF b \in {"a1", "a2", "a3"} THEN "a"
        ELSE IF b \in {"b1", "b2"} THEN "b" ELSE "c"]

FamilyRows == {[benchmark |-> b, family |-> FamilyOf[b]] : b \in DOMAIN FamilyOf}

MaxFamilyRows == 5

InitFamily ==
    /\ pc = "input"
    /\ IsTable(data, FamilyRows, MaxFamilyRows)
    /\ args = NoArgs
    /\ out = NoOut

GetFamilyScores ==
    /\ pc = "input"
    /\ out' = [status |-> "ok", family_scores |-> get_family_scores(data)]
    /\ pc' = "weighted"
    /\ UNCHANGED <<data, args>>

NextFamily == GetFamilyScores

SpecFamily == InitFamily /\ [][NextFamily]_vars

\* The distinct benchmarks of each family, counted from the input rows.
Members(f) == {data[i].benchmark : i \in {j \in DOMAIN data : data[j].family = f}}

\* C7: family weight normalization: for a non-empty division table, the sum
\* over the families f of Fb(f) * alpha_prime_b(f) is 1, and alpha_prime_b(f)
\* is alpha_b(f) = (1 + ln Fb(f)) / Fb(f) divided by the sum of Fb * alpha_b.
C7_WeightsNormalized ==
    (pc = "weighted" /\ data # <<>>) =>
        LET w == out.family_scores
            fams == Column(data, "family")
            raw == [f \in fams |->
                      Rat(100 + LnCenti[Cardinality(Members(f))],
                          100 * Cardinality(Members(f)))]
            total == RatSum([f \in fams |->
                               RatMul(RatInt(Cardinality(Members(f))), raw[f])], fams)
        IN /\ DOMAIN w = fams
           /\ RatSum([f \in fams |-> RatMul(RatInt(Cardinality(Members(f))), w[f])],
                     fams) = RatInt(1)
           /\ \A f \in fams : RatMul(w[f], total) = raw[f]

\* Two families of different sizes, one of them with several benchmarks,
\* were weighted.
C7_Witness ==
    /\ pc = "weighted"
    /\ \E f, g \in DOMAIN out.family_scores :
        /\ Cardinality(Members(f)) > Cardinality(Members(g))
        /\ Cardinality(Members(g)) > 1
        /\ out.family_scores[f] # out.family_scores[g]

(***************************************************************************)
(* ScoringEngine: score, for the job pairs of one division.                *)
(***************************************************************************)

g_all_solved == {"sat", "unsat"}
g_sat_solved == {"sat"}
g_unsat_solved == {"unsat"}

\* noncompetitive.csv as read by read_competitive: year -> solvers.
g_non_competitive == [year \in {"2018"} |-> {"s2"}]

\* not solvers or solver not in solvers
is_competitive(year, solver) ==
    \/ year \notin DOMAIN g_non_competitive
    \/ g_non_competitive[year] = {}
    \/ solver \notin g_non_competitive[year]

\* The slip of marking an error whether or not the status is known.
data_error_any_status(t) ==
    {i \in DOMAIN t :
        /\ t[i].result # "starexec-unknown"
        /\ t[i].result # t[i].expected}

\* The rows the error mark is set on.
data_error(t) ==
    {i \in DOMAIN t :
        /\ t[i].result # "starexec-unknown"
        /\ t[i].result # t[i].expected
        /\ t[i].expected # "starexec-unknown"}

\* The slip of comparing the wall-clock time in both timing modes.
data_solved_wallclock(t, a) ==
    {i \in DOMAIN t :
        /\ t[i].result \in a.verdicts
        /\ t[i].wallclock_time <= a.wclock_limit
        /\ IF a.skip_unknowns THEN t[i].result = t[i].expected
           ELSE (t[i].expected = "starexec-unknown" \/ t[i].result = t[i].expected)}

\* data_solved.index: the rows that count as solved, by index label.
data_solved(t, a) ==
    {i \in DOMAIN t :
        /\ t[i].result \in a.verdicts
        /\ IF a.sequential THEN t[i].cpu_time <= a.wclock_limit
           ELSE t[i].wallclock_time <= a.wclock_limit
        /\ IF a.skip_unknowns THEN t[i].result = t[i].expected
           ELSE (t[i].expected = "starexec-unknown" \/ t[i].result = t[i].expected)}

\* family_scores: get_family_scores(data) if use_families else {}
family_scores(t, a) ==
    IF a.use_families THEN get_family_scores(t) ELSE [f \in {} |-> RatInt(1)]

\* family_scores.get(x, 1)
alpha_prime_b(scores, family) ==
    IF family \in DOMAIN scores THEN scores[family] ELSE RatInt(1)

score_modifier(a, scores, num_benchmarks, family) ==
    IF a.use_families
    THEN RatMul(alpha_prime_b(scores, family), RatInt(num_benchmarks))
    ELSE RatInt(1)

score(t, a) ==
    LET num_benchmarks == Cardinality(Column(t, "benchmark"))
        scores == family_scores(t, a)
        solved == data_solved(t, a)
        wrong == data_error(t)
    IN [i \in DOMAIN t |->
        LET correct == IF i \in solved THEN 1 ELSE 0
            error == IF i \in wrong THEN 1 ELSE 0
            modifier == score_modifier(a, scores, num_benchmarks, t[i].family)
            weight == alpha_prime_b(scores, t[i].family)
        IN [division |-> t[i].division,
            benchmark |-> t[i].benchmark,
            family |-> t[i].family,
            solver |-> t[i].solver,
            cpu_time |-> t[i].cpu_time,
            wallclock_time |-> t[i].wallclock_time,
            result |-> t[i].result,
            expected |-> t[i].expected,
            year |-> a.year,
            score_error |-> RatMul(RatInt(error), modifier),
            score_correct |-> RatMul(RatInt(correct), modifier),
            score_cpu_time |-> RatMul(RatInt(t[i].cpu_time), weight),
            score_wallclock_time |-> RatMul(RatInt(t[i].wallclock_time), weight),
            correct |-> correct,
            error |-> error,
            competitive |-> is_competitive(a.year, t[i].solver)]]

\* Within one division a benchmark has one status and one family.
ExpectedOf ==
    [b \in {"a1", "a2", "b1"} |->
        IF b = "a1" THEN "sat" ELSE IF b = "a2" THEN "starexec-unknown" ELSE "unsat"]

\* <<cpu_time, wallclock_time>>: each pair is at the limit in one timing
\* mode and beyond it in the other.
TimePairs == {<<2, 3>>, <<3, 2>>}
TimeLimits == {2}

DivisionJobPairs ==
    {[division |-> "QF_BV", benchmark |-> b, family |-> FamilyOf[b],
      solver |-> "s1", cpu_time |-> tp[1], wallclock_time |-> tp[2],
      result |-> r, expected |-> ExpectedOf[b]] :
        b \in DOMAIN ExpectedOf, r \in Results, tp \in TimePairs}

ScoreArgs ==
    [year : {"2019"}, wclock_limit : TimeLimits,
     verdicts : {g_all_solved, g_sat_solved, g_unsat_solved},
     sequential : BOOLEAN, use_families : BOOLEAN, skip_unknowns : BOOLEAN]

MaxScoreRows == 2

InitScore ==
    /\ pc = "input"
    /\ IsTable(data, DivisionJobPairs, MaxScoreRows)
    /\ data # <<>>
    /\ args = NoArgs
    /\ out = NoOut

Score ==
    /\ pc = "input"
    /\ \E a \in ScoreArgs :
        /\ args' = a
        /\ out' = [status |-> "ok", data |-> score(data, a)]
    /\ pc' = "scored"
    /\ UNCHANGED data

NextScore == Score

SpecScore == InitScore /\ [][NextScore]_vars

\* C5 as stated: error = 1 iff result and expected are both definite
\* verdicts (sat or unsat) and differ, under every policy; a row with a
\* result that is no verdict (a timeout label) has error = 0.
C5_ErrorIffWrongVerdict ==
    pc = "scored" =>
        \A i \in DOMAIN out.data :
            out.data[i].error = 1 <=>
                /\ data[i].result \in Verdicts
                /\ data[i].expected \in Verdicts
                /\ data[i].result # data[i].expected

\* The time the limit applies to.
TimeOf(r) == IF args.sequential THEN r.cpu_time ELSE r.wallclock_time

\* C6: correct = 1 iff the result is in the verdict set, the time (cpu_time
\* under sequential timing, wallclock_time otherwise) is within the limit,
\* and either result = expected, or skip_unknowns is off and expected is
\* starexec-unknown; every other row has correct = 0.
C6_CorrectIffSolved ==
    pc = "scored" =>
        /\ Len(out.data) = Len(data)
        /\ \A i \in DOMAIN out.data :
            /\ out.data[i].correct \in {0, 1}
            /\ out.data[i].correct = 1 <=>
                /\ data[i].result \in args.verdicts
                /\ TimeOf(data[i]) <= args.wclock_limit
                /\ \/ data[i].result = data[i].expected
                   \/ (~args.skip_unknowns /\ data[i].expected = "starexec-unknown")

\* Scenario C in one table under sequential timing: an unknown-status
\* benchmark answered sat is credited (its cpu_time is within the limit, its
\* wallclock_time is not) next to a row that is not credited.
C6_Witness ==
    /\ pc = "scored"
    /\ ~args.skip_unknowns /\ args.sequential
    /\ \E i, j \in DOMAIN out.data :
        /\ data[i].expected = "starexec-unknown" /\ data[i].result = "sat"
        /\ data[i].wallclock_time > args.wclock_limit
        /\ out.data[i].correct = 1
        /\ out.data[j].correct = 0

\* C16: under every policy (verdict set, time limit, timing mode,
\* skip_unknowns, use_families) no scored job pair has correct = 1 and
\* error = 1, so a filter on error = 0 discards no row that has correct > 0.
C16_NeverCorrectAndError ==
    pc = "scored" =>
        /\ \A i \in DOMAIN out.data :
              ~(out.data[i].correct = 1 /\ out.data[i].error = 1)
        /\ {i \in DOMAIN out.data : out.data[i].correct > 0}
              = {i \in DOMAIN out.data :
                    out.data[i].correct > 0 /\ out.data[i].error = 0}

\* A verdict on a benchmark of unknown status was credited next to a wrong
\* verdict on a benchmark of known status, which was marked as an error.
C16_Witness ==
    /\ pc = "scored"
    /\ \E i, j \in DOMAIN out.data :
          /\ data[i].expected = "starexec-unknown"
          /\ out.data[i].correct = 1 /\ out.data[i].error = 0
          /\ data[j].result \in Verdicts
          /\ out.data[j].error = 1 /\ out.data[j].correct = 0

(***************************************************************************)
(* VBSAnalyzer: vbss, on the scored job pairs of one division.             *)
(***************************************************************************)

\* The slip of keeping the named solver's rows instead of dropping them.
vbss_rows_of_solver(t, solver) ==
    {i \in DOMAIN t :
        t[i].solver = solver /\ t[i].correct > 0 /\ t[i].error = 0}

\* The rows vbss considers: correctly solved, not by the excluded solver.
vbss_rows(t, solver) ==
    {i \in DOMAIN t :
        t[i].solver # solver /\ t[i].correct > 0 /\ t[i].error = 0}

\* Row i sorts before row j of the same benchmark under
\* sort_values(['benchmark', 'score_correct', 'wallclock_time'],
\* ascending=[True, False, True]); equal keys keep the table's order.
vbss_before(t, i, j) ==
    \/ RatLess(t[j].score_correct, t[i].score_correct)
    \/ /\ t[i].score_correct = t[j].score_correct
       /\ \/ t[i].wallclock_time < t[j].wallclock_time
          \/ (t[i].wallclock_time = t[j].wallclock_time /\ i < j)

\* The slip of keeping every row instead of the first of each benchmark.
data_vbs_every_row(t, rows) == rows

\* data_vbs: groupby('benchmark').first() of the sorted rows.
data_vbs(t, rows) ==
    {i \in rows : \A j \in rows :
        (j # i /\ t[j].benchmark = t[i].benchmark) => vbss_before(t, i, j)}

\* The slip of counting the benchmarks of the whole division in the assertion.
vbss_benchmarks_of_division(t, rows) == Column(t, "benchmark")

\* data.benchmark.unique(): the benchmarks of the rows considered.
vbss_benchmarks(t, rows) == {t[i].benchmark : i \in rows}

\* The score, or the failure of the assertion of line 687.
vbss(division_data, solver) ==
    LET rows == vbss_rows(division_data, solver)
        picked == data_vbs(division_data, rows)
    IN IF Cardinality(picked) # Cardinality(vbss_benchmarks(division_data, rows))
       THEN [status |-> "AssertionError"]
       ELSE [status |-> "ok",
             score |-> RatSum([i \in picked |-> division_data[i].score_correct],
                              picked)]

\* In these tables the solver named second is the faster one.
WallclockOf == [s \in Solvers |-> IF s = "s1" THEN 2 ELSE 1]

\* The job pairs of one division as process_csv leaves them: scored under
\* one policy, every time within the limit.
VbsJobPairs ==
    {[division |-> "QF_BV", benchmark |-> b, family |-> FamilyOf[b],
      solver |-> s, cpu_time |-> 2, wallclock_time |-> WallclockOf[s],
      result |-> r, expected |-> ExpectedOf[b]] :
        b \in DOMAIN ExpectedOf, s \in Solvers, r \in Verdicts}

VbsArgs ==
    [year : {"2019"}, wclock_limit : TimeLimits, verdicts : {g_all_solved},
     sequential : {FALSE}, use_families : BOOLEAN, skip_unknowns : {FALSE}]

MaxVbsRows == 3

InitVbs ==
    /\ pc = "input"
    /\ \E a \in VbsArgs :
        /\ args = a
        /\ \E k \in 1..MaxVbsRows :
            \E raw \in [1..k -> VbsJobPairs] : data = score(raw, a)
    /\ out = NoOut

\* vbs_score_correct = vbss(div_data, '')
VbsTotal ==
    /\ pc = "input"
    /\ out' = [status |-> vbss(data, "").status, total |-> vbss(data, "")]
    /\ pc' = "total"
    /\ UNCHANGED <<data, args>>

\* vbs_solver_score_correct = vbss(div_data, solver)
VbsWithout ==
    /\ pc = "total"
    /\ \E solver \in Column(data, "solver") :
        out' = [status |-> vbss(data, solver).status, total |-> out.total,
                solver |-> solver, without |-> vbss(data, solver)]
    /\ pc' = "excluded"
    /\ UNCHANGED <<data, args>>

NextVbs == VbsTotal \/ VbsWithout

SpecVbs == InitVbs /\ [][NextVbs]_vars

\* C4: VBS monotonicity: for every division table and every solver s,
\* vbss(D, s) <= vbss(D, ""): excluding a solver never raises the score.
C4_VbsMonotone ==
    pc = "excluded" =>
        /\ out.total.status = "ok"
        /\ out.without.status = "ok"
        /\ ~RatLess(out.total.score, out.without.score)

\* Under family weights, excluding a solver lowered the score without
\* emptying it, the weighted scores not being whole numbers.
C4_Witness ==
    /\ pc = "excluded"
    /\ args.use_families
    /\ out.without.status = "ok"
    /\ RatLess(out.without.score, out.total.score)
    /\ RatLess(RatInt(0), out.without.score)
    /\ out.without.score[2] # 1

\* The job pairs of D that are correct (correct > 0, error = 0) and not of s.
CorrectRows(D, s) ==
    {i \in DOMAIN D : D[i].correct > 0 /\ D[i].error = 0 /\ D[i].solver # s}

\* The greatest score_correct among the correct rows of benchmark b.
BestScore(D, s, b) ==
    LET found == {D[i].score_correct :
                     i \in {j \in CorrectRows(D, s) : D[j].benchmark = b}}
    IN CHOOSE x \in found : \A y \in found : ~RatLess(x, y)

\* The sum, over the benchmarks with a correct row, of the best score.
SumOfBest(D, s) ==
    LET solved == {D[i].benchmark : i \in CorrectRows(D, s)}
    IN RatSum([b \in solved |-> BestScore(D, s, b)], solved)

\* Each row vbss selects has the greatest score_correct among the correct
\* rows of its benchmark and, among those, the least wallclock_time.
SelectedAreBest(D, s) ==
    \A i \in data_vbs(D, vbss_rows(D, s)) :
        \A j \in CorrectRows(D, s) :
            D[j].benchmark = D[i].benchmark =>
                /\ ~RatLess(D[i].score_correct, D[j].score_correct)
                /\ D[j].score_correct = D[i].score_correct
                      => D[i].wallclock_time <= D[j].wallclock_time

\* C15: vbss(D, s) is the sum, over the distinct benchmarks with a row that
\* has correct > 0, error = 0 and solver # s, of the greatest score_correct
\* among those rows; the row selected for a benchmark has the greatest
\* score_correct and, among those, the least wallclock_time; a benchmark
\* without such a row adds nothing and several rows of one (solver,
\* benchmark) count once.
C15_VbsIsSumOfBest ==
    /\ pc = "total" =>
          /\ out.total.status = "ok"
          /\ out.total.score = SumOfBest(data, "")
          /\ SelectedAreBest(data, "")
    /\ pc = "excluded" =>
          /\ out.without.status = "ok"
          /\ out.without.score = SumOfBest(data, out.solver)
          /\ SelectedAreBest(data, out.solver)

\* With no solver excluded, one benchmark has two correct rows, of which
\* the later one is the faster, and counts once; another benchmark has no
\* correct row.
C15_Witness ==
    /\ pc = "total"
    /\ out.total.status = "ok"
    /\ \E i, j \in CorrectRows(data, "") :
          /\ i < j
          /\ data[i].benchmark = data[j].benchmark
          /\ data[j].wallclock_time < data[i].wallclock_time
          /\ out.total.score = data[i].score_correct
    /\ \E b \in Column(data, "benchmark") :
          \A i \in CorrectRows(data, "") : data[i].benchmark # b

\* C17: the assertion of vbss holds for every division table and every
\* excluded solver, also when a benchmark has no correct row of any
\* remaining solver: vbss returns a score and does not notice a benchmark
\* without a contributor.
C17_VbssAssertionHolds ==
    /\ pc = "total" => out.status = "ok" /\ out.total.status = "ok"
    /\ pc = "excluded" => out.status = "ok" /\ out.without.status = "ok"

\* Excluding the only solver that solved a benchmark leaves that benchmark
\* without a contributor, and vbss returns the score of the others.
C17_Witness ==
    /\ pc = "excluded"
    /\ out.without.status = "ok"
    /\ \E b \in Column(data, "benchmark") :
          /\ \E i \in CorrectRows(data, "") : data[i].benchmark = b
          /\ \A i \in CorrectRows(data, out.solver) : data[i].benchmark # b
    /\ Cardinality({data[i].benchmark : i \in CorrectRows(data, out.solver)})
          < Cardinality(Column(data, "benchmark"))
    /\ RatLess(out.without.score, out.total.score)

(***************************************************************************)
(* Aggregator/Ranker: group_and_rank_solver, on the concatenation of the   *)
(* scored divisions (and years) that process_csv and the report build.     *)
(***************************************************************************)

\* The strings the tables hold, in the order Python compares them.
StrOrder == <<"2018", "2019", "QF_BV", "QF_LIA", "s1", "s2", "s3">>

StrLess(x, y) ==
    (CHOOSE i \in DOMAIN StrOrder : StrOrder[i] = x)
        < (CHOOSE i \in DOMAIN StrOrder : StrOrder[i] = y)

\* Lexicographic order of tuples of strings of one length.
TupleLess(x, y) ==
    \E i \in DOMAIN x :
        /\ StrLess(x[i], y[i])
        /\ \A j \in 1..(i - 1) : x[j] = y[j]

\* The elements of a set of tuples in increasing order (groupby sorts its keys).
SortedTuples(S) ==
    [k \in 1..Cardinality(S) |->
        CHOOSE x \in S : Cardinality({y \in S : TupleLess(y, x)}) = k - 1]

RECURSIVE ConcatScored(_, _, _, _)
\* pandas.concat of score(division, division_data, ...) over the groups.
ConcatScored(t, a, groups, k) ==
    IF k > Len(groups) THEN <<>>
    ELSE score(SelectRows(t, {i \in DOMAIN t :
                                 <<t[i].year, t[i].division>> = groups[k]}, 1),
               [a EXCEPT !.year = groups[k][1]])
         \o ConcatScored(t, a, groups, k + 1)

\* What reaches the ranker: every year's rows scored division by division
\* (the loop of process_csv) and the results joined in one frame.
concat_scored(t, a) ==
    ConcatScored(t, a,
        SortedTuples({<<t[i].year, t[i].division>> : i \in DOMAIN t}), 1)

\* The sum of a column over the rows of one (year, division, solver).
GroupSum(t, key, col) ==
    LET rows == {i \in DOMAIN t : <<t[i].year, t[i].division, t[i].solver>> = key}
    IN RatSum([i \in rows |-> IF col \in {"correct", "error"}
                               THEN RatInt(t[i][col]) ELSE t[i][col]], rows)

\* num_benchmarks = len(data.benchmark.unique()), whatever the row.
num_benchmarks(t, key) == Cardinality(Column(t, "benchmark"))

\* data_grouped: one row per (year, division, solver), in key order.
data_grouped(t) ==
    LET keys == SortedTuples({<<t[i].year, t[i].division, t[i].solver>> :
                                 i \in DOMAIN t})
    IN [k \in DOMAIN keys |->
        [year |-> keys[k][1],
         division |-> keys[k][2],
         solver |-> keys[k][3],
         correct |-> GroupSum(t, keys[k], "correct")[1],
         error |-> GroupSum(t, keys[k], "error")[1],
         score_correct |-> GroupSum(t, keys[k], "score_correct"),
         score_error |-> GroupSum(t, keys[k], "score_error"),
         score_cpu_time |-> GroupSum(t, keys[k], "score_cpu_time"),
         score_wallclock_time |-> GroupSum(t, keys[k], "score_wallclock_time"),
         psolved |-> Rat(100 * GroupSum(t, keys[k], "correct")[1],
                         num_benchmarks(t, keys[k])),
         competitive |-> is_competitive(keys[k][1], keys[k][3])]]

\* by=['score_error', 'score_correct', 'score_wallclock_time',
\* 'score_cpu_time'], ascending=[True, False, True, True]
sort_values_less(x, y) ==
    \/ RatLess(x.score_error, y.score_error)
    \/ /\ x.score_error = y.score_error
       /\ \/ RatLess(y.score_correct, x.score_correct)
          \/ /\ x.score_correct = y.score_correct
             /\ \/ RatLess(x.score_wallclock_time, y.score_wallclock_time)
                \/ /\ x.score_wallclock_time = y.score_wallclock_time
                   /\ RatLess(x.score_cpu_time, y.score_cpu_time)

\* Row j comes before row i when the frame is sorted on these keys; rows
\* with equal keys keep their order (the sort is stable).
sort_values_before(t, j, i) ==
    \/ sort_values_less(t[j], t[i])
    \/ (~sort_values_less(t[i], t[j]) /\ j < i)

sort_values(t) ==
    [k \in DOMAIN t |->
        t[CHOOSE i \in DOMAIN t :
              Cardinality({j \in DOMAIN t : sort_values_before(t, j, i)}) = k - 1]]

\* The index levels compared: year and division (level=[0,1]); the solver
\* level is left as it is (sort_remaining=False).
sort_index_less(x, y) ==
    TupleLess(<<x.year, x.division>>, <<y.year, y.division>>)

sort_index_before(t, j, i) ==
    \/ sort_index_less(t[j], t[i])
    \/ (~sort_index_less(t[i], t[j]) /\ j < i)

\* The slip of sort_remaining=True: the solver level is sorted as well.
sort_index_remaining(t) ==
    [k \in DOMAIN t |->
        t[CHOOSE i \in DOMAIN t :
              Cardinality({j \in DOMAIN t :
                  TupleLess(<<t[j].year, t[j].division, t[j].solver>>,
                            <<t[i].year, t[i].division, t[i].solver>>)}) = k - 1]]

sort_index(t) ==
    [k \in DOMAIN t |->
        t[CHOOSE i \in DOMAIN t :
              Cardinality({j \in DOMAIN t : sort_index_before(t, j, i)}) = k - 1]]

\* The columns of the returned frame (its index levels included).
RankedColumns ==
    {"year", "division", "solver", "correct", "error", "score_correct",
     "score_error", "score_cpu_time", "score_wallclock_time", "psolved",
     "competitive"}

group_and_rank_solver(t) == sort_index(sort_values(data_grouped(t)))

\* res = top[(data.Rank==0)]: a frame without that column has no such
\* attribute.
winners(columns, t) ==
    IF "Rank" \notin columns THEN [status |-> "AttributeError"]
    ELSE [status |-> "ok", columns |-> columns,
          data |-> SelectRows(t, {i \in DOMAIN t : t[i].Rank = 0}, 1)]

\* The (year, division, benchmark) triples of the result files.
RankPlaces ==
    {<<"2018", "QF_BV", "a1">>, <<"2019", "QF_BV", "a1">>,
     <<"2019", "QF_BV", "a2">>, <<"2019", "QF_LIA", "b1">>}

\* <<cpu_time, wallclock_time>>, all within the limit.
RankTimePairs == {<<1, 1>>, <<2, 1>>, <<1, 2>>}

RankJobPairs ==
    {[year |-> p[1], division |-> p[2], benchmark |-> p[3],
      family |-> FamilyOf[p[3]], solver |-> s,
      cpu_time |-> tp[1], wallclock_time |-> tp[2],
      result |-> r, expected |-> ExpectedOf[p[3]]] :
        p \in RankPlaces, s \in Solvers, r \in Verdicts, tp \in RankTimePairs}

MaxRankRows == 2

InitRank ==
    /\ pc = "input"
    /\ \E a \in VbsArgs :
        /\ args = a
        /\ \E k \in 1..MaxRankRows :
            \E raw \in [1..k -> RankJobPairs] : data = concat_scored(raw, a)
    /\ out = NoOut

GroupAndRank ==
    /\ pc = "input"
    /\ out' = [status |-> "ok", columns |-> RankedColumns,
                data |-> group_and_rank_solver(data)]
    /\ pc' = "ranked"
    /\ UNCHANGED <<data, args>>

Winners ==
    /\ pc = "ranked"
    /\ out' = winners(out.columns, out.data)
    /\ pc' = "winners"
    /\ UNCHANGED <<data, args>>

NextRank == GroupAndRank \/ Winners

SpecRank == InitRank /\ [][NextRank]_vars

SameGroup(x, y) == x.year = y.year /\ x.division = y.division

\* x has a strictly better key than y: (score_error, -score_correct,
\* score_wallclock_time, score_cpu_time), compared lexicographically.
StrictlyBetter(x, y) ==
    LET kx == <<x.score_error, y.score_correct, x.score_wallclock_time,
                x.score_cpu_time>>
        ky == <<y.score_error, x.score_correct, y.score_wallclock_time,
                y.score_cpu_time>>
    IN \E i \in 1..4 :
        /\ RatLess(kx[i], ky[i])
        /\ \A j \in 1..(i - 1) : kx[j] = ky[j]

C9_PsolvedPerDivision ==
    pc = "ranked" =>
        \A k \in DOMAIN out.data :
            out.data[k].psolved =
                Rat(100 * out.data[k].correct,
                    Cardinality({data[i].benchmark :
                        i \in {j \in DOMAIN data :
                                  data[j].division = out.data[k].division}}))

\* C10 as stated: every row of the summary carries a rank, its 0-based
\* position within its (year, division) group.
C10_RankPopulated ==
    pc = "ranked" =>
        /\ "rank" \in out.columns \/ "Rank" \in out.columns
        /\ \A k \in DOMAIN out.data :
              /\ "Rank" \in DOMAIN out.data[k]
              /\ out.data[k].Rank =
                    Cardinality({j \in 1..(k - 1) :
                                    SameGroup(out.data[j], out.data[k])})

(***************************************************************************)
(* MetaRankers: biggest_lead_ranking and largest_contribution_ranking, on  *)
(* the frame process_csv returns for one year.                             *)
(***************************************************************************)

\* name_lookup.csv as read by read_solver_names: solver -> base name.
g_solver_names == [solver \in {"s3"} |-> "s1"]

\* g_solver_names.get(solver, solver)
solver_str(solver) ==
    IF solver \in DOMAIN g_solver_names THEN g_solver_names[solver] ELSE solver

\* The slip of counting the solver variants themselves.
is_division_competitive_variants(solvers) == Cardinality(solvers) > 1

is_division_competitive(solvers) ==
    Cardinality({solver_str(x) : x \in solvers}) > 1

\* x - y
RatSub(x, y) == RatAdd(x, <<-y[1], y[2]>>)

\* float('nan'): every comparison with it is false.
NaN == <<0, 0>>

RECURSIVE count_run(_, _, _, _)
\* The length of the run that starts the list p of positions: descending
\* while each element is less than the one before it, else ascending while
\* none is.
count_run(p, lt, k, descending) ==
    IF k >= Len(p) THEN k
    ELSE IF lt[p[k + 1], p[k]] = descending
         THEN count_run(p, lt, k + 1, descending)
         ELSE k

RECURSIVE bisect(_, _, _, _, _)
\* The insertion point of pivot among the sorted p[l..r-1]: after the
\* elements it is not less than.
bisect(p, lt, pivot, l, r) ==
    IF l >= r THEN l
    ELSE LET mid == l + ((r - l) \div 2)
         IN IF lt[pivot, p[mid]] THEN bisect(p, lt, pivot, l, mid)
            ELSE bisect(p, lt, pivot, mid + 1, r)

RECURSIVE binarysort(_, _, _)
\* Binary insertion of p[start], p[start+1], ... into the sorted prefix.
binarysort(p, lt, start) ==
    IF start > Len(p) THEN p
    ELSE LET at == bisect(p, lt, p[start], 1, start)
             q == [k \in DOMAIN p |->
                      IF k < at \/ k > start THEN p[k]
                      ELSE IF k = at THEN p[start] ELSE p[k - 1]]
         IN binarysort(q, lt, start + 1)

\* list.sort on a list of fewer than 64 elements, as positions: the first
\* run (reversed if descending) extended by binary insertion.  lt[i, j] is
\* the outcome of l[i] < l[j].
list_sort(p, lt) ==
    IF Len(p) < 2 THEN p
    ELSE LET descending == lt[p[2], p[1]]
             n == count_run(p, lt, 2, descending)
             run == [k \in DOMAIN p |->
                        IF descending /\ k <= n THEN p[n + 1 - k] ELSE p[k]]
         IN binarysort(run, lt, n + 1)

\* sorted(l, reverse=True): the list reversed, sorted, and reversed again.
sorted_reverse(l, lt) ==
    LET n == Len(l)
        p == list_sort([k \in 1..n |-> n + 1 - k], lt)
    IN [k \in 1..n |-> l[p[n + 1 - k]]]

\* (score, 1st solver, 2nd solver, division) < (...), as Python compares
\* tuples: on the first items that are not equal.
lead_lt(x, y) ==
    IF x[1] # y[1] THEN RatLess(x[1], y[1])
    ELSE IF x[2] # y[2] THEN StrLess(x[2], y[2])
    ELSE IF x[3] # y[3] THEN StrLess(x[3], y[3])
    ELSE x[4] # y[4] /\ StrLess(x[4], y[4])

\* (score, division size, solver, division) < (...); a nan score is equal
\* to no score and less than none.
contribution_lt(x, y) ==
    IF x[1] # y[1] \/ x[1] = NaN THEN RatLess(x[1], y[1])
    ELSE IF x[2] # y[2] THEN x[2] < y[2]
    ELSE IF x[3] # y[3] THEN StrLess(x[3], y[3])
    ELSE x[4] # y[4] /\ StrLess(x[4], y[4])

\* div_data.solver.unique(): the values in order of first appearance.
unique(t, col) ==
    LET firsts == SelectRows(t, {i \in DOMAIN t :
                                    \A j \in 1..(i - 1) : t[j][col] # t[i][col]}, 1)
    IN [k \in DOMAIN firsts |-> firsts[k][col]]

RECURSIVE LeadScores(_, _, _)
\* The loop over the (year, division) groups of the competitive rows of the
\* ranked frame: one tuple for each group that is competitive.
LeadScores(t, groups, k) ==
    IF k > Len(groups) THEN <<>>
    ELSE LET div_data == SelectRows(t, {i \in DOMAIN t :
                             <<t[i].year, t[i].division>> = groups[k]}, 1)
             first == div_data[1]
             second == div_data[2]
         IN (IF ~is_division_competitive(Column(div_data, "solver")) THEN <<>>
             ELSE << <<Rat(1 + first.correct, 1 + second.correct),
                       first.solver, second.solver, groups[k][2]>> >>)
            \o LeadScores(t, groups, k + 1)

\* scores_sorted, the list that is printed.
biggest_lead_ranking(t) ==
    LET ranked == group_and_rank_solver(t)
        competitive == SelectRows(ranked,
                           {i \in DOMAIN ranked : ranked[i].competitive}, 1)
        scores == LeadScores(competitive,
                      SortedTuples({<<competitive[i].year, competitive[i].division>> :
                                       i \in DOMAIN competitive}), 1)
    IN sorted_reverse(scores,
           [i, j \in DOMAIN scores |-> lead_lt(scores[i], scores[j])])

\* score = 1 - (vbs_solver_score_correct / vbs_score_correct); 0 / 0 of the
\* sums is nan.
contribution_score(vbs_solver_score_correct, vbs_score_correct) ==
    IF vbs_score_correct = RatInt(0) THEN NaN
    ELSE RatSub(RatInt(1), RatDiv(vbs_solver_score_correct, vbs_score_correct))

\* scores_diff_sorted[0] of one competitive division.
contribution_top(div_data, division) ==
    LET solvers == unique(div_data, "solver")
        vbs_score_correct == vbss(div_data, "").score
        scores_diff ==
            [k \in DOMAIN solvers |->
                <<contribution_score(vbss(div_data, solvers[k]).score,
                                     vbs_score_correct),
                  Len(solvers), solvers[k], division>>]
    IN sorted_reverse(scores_diff,
           [i, j \in DOMAIN scores_diff |->
               contribution_lt(scores_diff[i], scores_diff[j])])[1]

\* The rows of one division of the competitive rows.
div_data_of(t, division) ==
    SelectRows(t, {i \in DOMAIN t : t[i].competitive /\ t[i].division = division}, 1)

\* The divisions the loop does not skip, in the order groupby visits them.
competitive_divisions(t) ==
    LET all == SortedTuples({<<t[i].division>> :
                                i \in {j \in DOMAIN t : t[j].competitive}})
        kept == SelectRows(all, {k \in DOMAIN all :
                    is_division_competitive(
                        Column(div_data_of(t, all[k][1]), "solver"))}, 1)
    IN [k \in DOMAIN kept |-> kept[k][1]]

\* The list that is printed: sorted(scores_top, reverse=True).  The first
\* failure of a vbss assertion ends the run; so does 0 / 0 when the sums are
\* Python numbers (zero_division) and not numpy's.
largest_contribution_ranking(t, zero_division) ==
    LET divisions == competitive_divisions(t)
        failed(d) ==
            \/ vbss(div_data_of(t, d), "").status # "ok"
            \/ \E s \in Column(div_data_of(t, d), "solver") :
                   vbss(div_data_of(t, d), s).status # "ok"
        scores_top == [k \in DOMAIN divisions |->
                          contribution_top(div_data_of(t, divisions[k]), divisions[k])]
    IN IF \E k \in DOMAIN divisions : failed(divisions[k])
       THEN [status |-> "AssertionError"]
       ELSE IF zero_division /\ \E k \in DOMAIN divisions :
                   vbss(div_data_of(t, divisions[k]), "").score = RatInt(0)
       THEN [status |-> "ZeroDivisionError"]
       ELSE [status |-> "ok",
             scores |-> sorted_reverse(scores_top,
                 [i, j \in DOMAIN scores_top |->
                     contribution_lt(scores_top[i], scores_top[j])])]

\* The job pairs of the csv of one year: two divisions, three solvers of
\* which s3 is a variant of s1, every time within the limit.  A csv has one
\* job pair for a solver and a benchmark.
RankingPlaces == {<<"QF_BV", "a1">>, <<"QF_LIA", "b1">>}

RankingSolvers == {"s1", "s2", "s3"}

RankingJobPairs(year) ==
    {[year |-> year, division |-> p[1], benchmark |-> p[2],
      family |-> FamilyOf[p[2]], solver |-> s,
      cpu_time |-> 1, wallclock_time |-> 1,
      result |-> r, expected |-> ExpectedOf[p[2]]] :
        p \in RankingPlaces, s \in RankingSolvers, r \in Verdicts}

\* The arguments main passes to process_csv, for a year with a solver out
\* of competition and a year without.
RankingArgs ==
    [year : {"2018", "2019"}, wclock_limit : TimeLimits, verdicts : {g_all_solved},
     sequential : {FALSE}, use_families : {FALSE}, skip_unknowns : {FALSE}]

MaxRankingRows == 4

InitRankings ==
    /\ pc = "input"
    /\ \E a \in RankingArgs :
        /\ args = a
        /\ \E k \in 1..MaxRankingRows :
            \E raw \in [1..k -> RankingJobPairs(a.year)] :
                /\ \A i, j \in 1..k :
                       (raw[i].benchmark = raw[j].benchmark
                            /\ raw[i].solver = raw[j].solver) => i = j
                /\ data = concat_scored(raw, a)
    /\ out = NoOut

\* biggest_lead_ranking(df)
BiggestLeadRanking ==
    /\ pc = "input"
    /\ out' = [status |-> "ok", lead |-> biggest_lead_ranking(data)]
    /\ pc' = "lead"
    /\ UNCHANGED <<data, args>>

\* largest_contribution_ranking(df)
LargestContributionRanking ==
    /\ pc = "lead"
    /\ \E zero_division \in BOOLEAN :
        out' = [status |-> largest_contribution_ranking(data, zero_division).status,
                lead |-> out.lead,
                contribution |-> largest_contribution_ranking(data, zero_division)]
    /\ pc' = "contribution"
    /\ UNCHANGED <<data, args>>

NextRankings == BiggestLeadRanking \/ LargestContributionRanking

SpecRankings == InitRankings /\ [][NextRankings]_vars

\* The competitive job pairs of one division of the frame.
CompetitiveRows(d) ==
    SelectRows(data, {i \in DOMAIN data :
                         data[i].competitive /\ data[i].division = d}, 1)

\* The divisions whose competitive solvers have two distinct base names.
CompetitiveDivisions ==
    {d \in Column(data, "division") :
        Cardinality({solver_str(s) : s \in Column(CompetitiveRows(d), "solver")}) >= 2}

\* The totals of solver s over its job pairs in division d.
Summary(d, s) ==
    LET rows == {i \in DOMAIN data : data[i].division = d /\ data[i].solver = s}
    IN [solver |-> s,
        correct |-> Cardinality({i \in rows : data[i].correct = 1}),
        score_error |-> RatSum([i \in rows |-> data[i].score_error], rows),
        score_correct |-> RatSum([i \in rows |-> data[i].score_correct], rows),
        score_wallclock_time |->
            RatSum([i \in rows |-> data[i].score_wallclock_time], rows),
        score_cpu_time |-> RatSum([i \in rows |-> data[i].score_cpu_time], rows)]

\* The entries are in descending order of their scores.
Descending(entries) ==
    \A k \in 1..(Len(entries) - 1) : ~RatLess(entries[k][1], entries[k + 1][1])

\* C13: biggest-lead ranking: each (year, division) whose competitive
\* solvers have at least two distinct base names has exactly one entry, with
\* score (1 + correct(first)) / (1 + correct(second)), first and second
\* being the two best-ranked competitive solvers of the division under the
\* 4-key ordering; no other division has an entry; the entries are sorted by
\* score descending.
C13_BiggestLead ==
    pc \in {"lead", "contribution"} =>
        /\ {out.lead[k][4] : k \in DOMAIN out.lead} = CompetitiveDivisions
        /\ Len(out.lead) = Cardinality(CompetitiveDivisions)
        /\ Descending(out.lead)
        /\ \A k \in DOMAIN out.lead :
            LET d == out.lead[k][4]
                solvers == Column(CompetitiveRows(d), "solver")
                first == out.lead[k][2]
                second == out.lead[k][3]
            IN /\ first \in solvers /\ second \in solvers /\ first # second
               /\ \A s \in solvers :
                     ~StrictlyBetter(Summary(d, s), Summary(d, first))
               /\ \A s \in solvers \ {first} :
                     ~StrictlyBetter(Summary(d, s), Summary(d, second))
               /\ RatMul(out.lead[k][1], RatInt(1 + Summary(d, second).correct))
                     = RatInt(1 + Summary(d, first).correct)

\* Two divisions have an entry; the division that is later by name has the
\* bigger lead and is printed first, its second solver having solved
\* nothing.
C13_Witness ==
    /\ pc = "lead"
    /\ Len(out.lead) = 2
    /\ out.lead[1][4] = "QF_LIA"
    /\ out.lead[2][4] = "QF_BV"
    /\ out.lead[1][1] = RatInt(2)
    /\ out.lead[2][1] = RatInt(1)

\* C12 as stated: largest-contribution ranking: each division whose
\* competitive solvers have at least two distinct base names has one entry,
\* the solver of maximum contribution 1 - vbss(D, s) / vbss(D, ""), equal
\* contributions broken by solver name; no other division has an entry; the
\* entries are sorted by contribution descending.
C12_LargestContribution ==
    pc = "contribution" =>
        /\ out.status = "ok"
        /\ {out.contribution.scores[k][4] : k \in DOMAIN out.contribution.scores}
              = CompetitiveDivisions
        /\ Len(out.contribution.scores) = Cardinality(CompetitiveDivisions)
        /\ Descending(out.contribution.scores)
        /\ \A k \in DOMAIN out.contribution.scores :
            LET e == out.contribution.scores[k]
                D == CompetitiveRows(e[4])
                total == SumOfBest(D, "")
            IN /\ e[3] \in Column(D, "solver")
               /\ total # RatInt(0)
               /\ e[1] # NaN
               /\ RatMul(e[1], total) = RatSub(total, SumOfBest(D, e[3]))
               /\ \A s \in Column(D, "solver") :
                     /\ ~RatLess(SumOfBest(D, s), SumOfBest(D, e[3]))
                     /\ SumOfBest(D, s) = SumOfBest(D, e[3]) => ~StrLess(e[3], s)

(***************************************************************************)
(* main: the run over the (year, csv, time limit) inputs of the command    *)
(* line.  data is g_args.csv after parse_args, in the order of the -y      *)
(* list, each csv with whether its file exists; out.i is the position of   *)
(* the loop over the years and out.scored the years whose job pairs have   *)
(* been through process_csv and the rankings.                              *)
(***************************************************************************)

Years == {"2015", "2016", "2017", "2018", "2019"}

ReportYears == <<"2015", "2016", "2017", "2018">>

MaxCsvs == 4

\* g_args.csv is a dictionary: a year occurs once.
CsvLists ==
    {l \in UNION {[1..k -> [year : Years, exists : BOOLEAN]] : k \in 1..MaxCsvs} :
        \A i, j \in DOMAIN l : l[i].year = l[j].year => i = j}

InitMain ==
    /\ pc = "input"
    /\ data \in CsvLists
    /\ args \in [report : BOOLEAN]
    /\ out = NoOut

\* parse_args (the lists are given and of one length): with --report the
\* four years of the report must be among the years.
ParseArgs ==
    /\ pc = "input"
    /\ IF args.report /\ \E k \in DOMAIN ReportYears :
                            ReportYears[k] \notin Column(data, "year")
       THEN /\ pc' = "failed"
            /\ out' = [status |-> "AssertionError", i |-> 1, scored |-> <<>>]
       ELSE /\ pc' = IF args.report THEN "report" ELSE "year"
            /\ out' = [status |-> "running", i |-> 1, scored |-> <<>>]
    /\ UNCHANGED <<data, args>>

\* die("Given csv does not exist: ...")
die == [status |-> "die", i |-> out.i, scored |-> out.scored]

\* One turn of the loop of the report branch: the existence test alone.
ReportCheckCsv ==
    /\ pc = "report"
    /\ out.i <= Len(data)
    /\ IF ~data[out.i].exists
       THEN pc' = "died" /\ out' = die
       ELSE pc' = "report" /\ out' = [out EXCEPT !.i = out.i + 1]
    /\ UNCHANGED <<data, args>>

\* gen_results_for_report(), after the loop: the four years are processed.
GenResultsForReport ==
    /\ pc = "report"
    /\ out.i > Len(data)
    /\ out' = [status |-> "ok", i |-> out.i, scored |-> ReportYears]
    /\ pc' = "done"
    /\ UNCHANGED <<data, args>>

\* The existence test of one turn of the loop of the normal branch.
MainCheckCsv ==
    /\ pc = "year"
    /\ out.i <= Len(data)
    /\ IF ~data[out.i].exists
       THEN pc' = "died" /\ out' = die
       ELSE pc' = "process" /\ out' = out
    /\ UNCHANGED <<data, args>>

\* The rest of that turn: process_csv, biggest_lead_ranking and
\* largest_contribution_ranking on the year's job pairs.
MainProcessCsv ==
    /\ pc = "process"
    /\ out' = [out EXCEPT !.scored = Append(out.scored, data[out.i].year),
                          !.i = out.i + 1]
    /\ pc' = "year"
    /\ UNCHANGED <<data, args>>

\* result = pandas.concat(data, ignore_index = True)
MainConcat ==
    /\ pc = "year"
    /\ out.i > Len(data)
    /\ out' = [out EXCEPT !.status = "ok"]
    /\ pc' = "done"
    /\ UNCHANGED <<data, args>>

NextMain ==
    \/ ParseArgs
    \/ ReportCheckCsv
    \/ GenResultsForReport
    \/ MainCheckCsv
    \/ MainProcessCsv
    \/ MainConcat

SpecMain == InitMain /\ [][NextMain]_vars

\* C11 as stated: when a referenced result file is missing the run dies, and
\* at that point no year has been through process_csv or the rankings, in
\* report mode and in the normal per-year mode alike.
C11_MissingFatalBeforeScoring ==
    /\ (pc = "died" => out.scored = <<>>)
    /\ (pc = "done" => \A i \in DOMAIN data : data[i].exists)

====
